---- MODULE Spec2Model ----
(***************************************************************************)
(* CommandIsolatorProcess (src/src/CommandIsolator.cpp): a libprocess      *)
(* actor that keeps one ContainerConfig per ContainerID in m_infos and     *)
(* runs operator-configured commands on prepare / watch / usage / cleanup. *)
(*                                                                         *)
(* The actor executes one dispatched call at a time.  CommandRunner::run   *)
(* is synchronous, so the actor is blocked while a prepare or a cleanup    *)
(* hook runs.  watch() spawns a helper process and a process::loop on it:  *)
(* the loop's iterate (the hook) and its body (the m_infos lookup and the  *)
(* interpretation of the output) run on the helper, concurrently with the  *)
(* actor.  The body's lookup is therefore unsynchronised with the actor's  *)
(* put and erase: a lookup that overlaps one of them is a data race.       *)
(***************************************************************************)
EXTENDS Naturals, FiniteSets, Sequences, TLC

\* ----------------------------------------------------------------- bound
\* The calls dispatched to the actor (and discards of watch futures) in one
\* behaviour.  Hooks, loops and the clock run on without bound.
MaxCalls == 4

\* ------------------------------------------------------------ value sets
Containers == {"c1", "c2"}
Configs == {"cfgA", "cfgB"}
Limitations == {"limA", "limB"}
None == "none"
\* A time, as it relates to Clock::now(): the present instant or an earlier one.
Times == {"now", "earlier"}

\* Try<string> of a hook run: an execution error, empty output, output that
\* does not decode, output that decodes.
HookOutputs == {"error", "empty", "garbage", "valid"}
\* The watch hook's output; a decodable one names the ContainerLimitation.
WatchOutputs == {"error", "empty", "garbage"} \cup Limitations
\* The usage hook's future: a Try<string>, or a failed future.
UsageOutcomes == HookOutputs \cup {"failed"}

VARIABLES
    m_prepareCommand,   \* Option<Command> isSome
    m_watchCommand,     \* Option<RecurrentCommand> isSome
    m_cleanupCommand,   \* Option<Command> isSome
    m_usageCommand,     \* Option<Command> isSome
    m_infos,            \* hashmap<ContainerID, ContainerConfig>
    actor,              \* what the actor is executing
    loops,              \* the watch loops, in spawn order
    usages,             \* usage hooks in flight: the `now` each continuation captured
    calls,              \* calls dispatched so far
    ev                  \* the last step: call, result, hook invoked

vars == <<m_prepareCommand, m_watchCommand, m_cleanupCommand, m_usageCommand,
          m_infos, actor, loops, usages, calls, ev>>

commands == <<m_prepareCommand, m_watchCommand, m_cleanupCommand, m_usageCommand>>

Idle == [pc |-> "idle", id |-> None, cfg |-> None, res |-> None]

Event(op, id, res) ==
    [op |-> op, id |-> id, res |-> res, cfg |-> None, hook |-> None,
     input |-> None, out |-> None, ts |-> None, loop |-> 0]

HookEvent(op, id, res, hook, input) ==
    [Event(op, id, res) EXCEPT !.hook = hook, !.input = input]

contains(id) == m_infos[id] # None

\* One more call is dispatched.
Dispatched == calls < MaxCalls /\ calls' = calls + 1

Remove(seq, k) == [j \in 1..(Len(seq) - 1) |-> IF j < k THEN seq[j] ELSE seq[j + 1]]

\* A put or an erase of m_infos is in progress on the actor.  m_infos holds
\* the map as it was before the write until the write completes.
Writing == actor.pc \in {"prepare_put", "cleanup_erase"}
Putting(id) == actor.pc = "prepare_put" /\ actor.id = id
Erasing(id) == actor.pc = "cleanup_erase" /\ actor.id = id

\* m_infos.contains(id) evaluated on the helper process.  Outside a write it
\* is the map's answer.  Overlapping a write it is a data race: the lookup
\* may miss a key that is there (the table is being relinked), and may
\* already find the key that is being put.  (A crash of the whole agent is
\* a further outcome of the race; it ends every behaviour and is left out.)
LoopContains(id) ==
    IF Writing
    THEN {contains(id), FALSE} \cup (IF Putting(id) THEN {TRUE} ELSE {})
    ELSE {contains(id)}

\* The record of id is in the map and no erase of it is in progress.
Present(id) == contains(id) /\ ~Erasing(id)
\* The record of id is not in the map and no put of it is in progress.
Absent(id) == ~contains(id) /\ ~Putting(id)

\* emptyStats called without its argument: the default is Clock::now().
emptyStatsNow(timestamp) == [res |-> "EmptyStats", ts |-> "now"]

emptyStats(timestamp) == [res |-> "EmptyStats", ts |-> timestamp]

Init ==
    /\ m_prepareCommand \in BOOLEAN
    /\ m_watchCommand \in BOOLEAN
    /\ m_cleanupCommand \in BOOLEAN
    /\ m_usageCommand \in BOOLEAN
    /\ m_infos = [id \in Containers |-> None]
    /\ actor = Idle
    /\ loops = << >>
    /\ usages = << >>
    /\ calls = 0
    /\ ev = Event("init", None, None)

\* ---------------------------------------------------------------- prepare
\* prepare() without the contains() test: the put overwrites.
PrepareCallOverwrite(id, cfg) ==
    /\ Dispatched
    /\ actor.pc = "idle"
    /\ actor' = [pc |-> "prepare_put", id |-> id, cfg |-> cfg, res |-> None]
    /\ ev' = [Event("prepare", id, "running") EXCEPT !.cfg = cfg]
    /\ UNCHANGED <<commands, m_infos, loops, usages>>

PrepareCall(id, cfg) ==
    /\ Dispatched
    /\ actor.pc = "idle"
    /\ IF contains(id)
       THEN /\ ev' = [Event("prepare", id, "AlreadyInitialized") EXCEPT !.cfg = cfg]
            /\ UNCHANGED actor
       ELSE /\ actor' = [pc |-> "prepare_put", id |-> id, cfg |-> cfg, res |-> None]
            /\ ev' = [Event("prepare", id, "running") EXCEPT !.cfg = cfg]
    /\ UNCHANGED <<commands, m_infos, loops, usages>>

PreparePut ==
    /\ actor.pc = "prepare_put"
    /\ m_infos' = [m_infos EXCEPT ![actor.id] = actor.cfg]
    /\ IF ~m_prepareCommand
       THEN /\ actor' = Idle
            /\ ev' = Event("prepare_ret", actor.id, "None")
       ELSE /\ actor' = [actor EXCEPT !.pc = "prepare_run"]
            /\ ev' = HookEvent("prepare_put", actor.id, "running", "prepare", actor.cfg)
    /\ UNCHANGED <<commands, loops, usages, calls>>

PrepareResult(out) ==
    CASE out = "error" -> "Failure"
      [] out = "empty" -> "None"
      [] out = "garbage" -> "DecodeFailure"
      [] OTHER -> "LaunchInfo"

\* prepare() that takes the record back when its hook fails.
PrepareReturnRollback(out) ==
    /\ actor.pc = "prepare_run"
    /\ actor' = Idle
    /\ m_infos' = IF PrepareResult(out) \in {"Failure", "DecodeFailure"}
                  THEN [m_infos EXCEPT ![actor.id] = None]
                  ELSE m_infos
    /\ ev' = Event("prepare_ret", actor.id, PrepareResult(out))
    /\ UNCHANGED <<commands, loops, usages, calls>>

PrepareReturn(out) ==
    /\ actor.pc = "prepare_run"
    /\ actor' = Idle
    /\ ev' = Event("prepare_ret", actor.id, PrepareResult(out))
    /\ UNCHANGED <<commands, m_infos, loops, usages, calls>>

\* ------------------------------------------------------------------ watch
NewLoop(id) ==
    [id |-> id, input |-> m_infos[id], pc |-> "start",
     req |-> FALSE, result |-> None, helper |-> TRUE]

\* watch() without the contains() test.
WatchCallNoCheck(id) ==
    /\ Dispatched
    /\ actor.pc = "idle"
    /\ IF ~m_watchCommand
       THEN /\ ev' = Event("watch", id, "Pending")
            /\ UNCHANGED loops
       ELSE /\ loops' = Append(loops, NewLoop(id))
            /\ ev' = [Event("watch", id, "Spawned") EXCEPT !.loop = Len(loops) + 1]
    /\ UNCHANGED <<commands, m_infos, actor, usages>>

\* watch() that tests the record before it tests the command.
WatchCallRecordFirst(id) ==
    /\ Dispatched
    /\ actor.pc = "idle"
    /\ IF ~contains(id)
       THEN /\ ev' = Event("watch", id, "NotInitialized")
            /\ UNCHANGED loops
       ELSE IF ~m_watchCommand
       THEN /\ ev' = Event("watch", id, "Pending")
            /\ UNCHANGED loops
       ELSE /\ loops' = Append(loops, NewLoop(id))
            /\ ev' = [Event("watch", id, "Spawned") EXCEPT !.loop = Len(loops) + 1]
    /\ UNCHANGED <<commands, m_infos, actor, usages>>

\* watch() entered without going through the actor's mailbox.
WatchCallAnytime(id) ==
    /\ Dispatched
    /\ IF ~m_watchCommand
       THEN /\ ev' = Event("watch", id, "Pending")
            /\ UNCHANGED loops
       ELSE IF ~contains(id)
       THEN /\ ev' = Event("watch", id, "NotInitialized")
            /\ UNCHANGED loops
       ELSE /\ loops' = Append(loops, NewLoop(id))
            /\ ev' = [Event("watch", id, "Spawned") EXCEPT !.loop = Len(loops) + 1]
    /\ UNCHANGED <<commands, m_infos, actor, usages>>

WatchCall(id) ==
    /\ Dispatched
    /\ actor.pc = "idle"
    /\ IF ~m_watchCommand
       THEN /\ ev' = Event("watch", id, "Pending")
            /\ UNCHANGED loops
       ELSE IF ~contains(id)
       THEN /\ ev' = Event("watch", id, "NotInitialized")
            /\ UNCHANGED loops
       ELSE /\ loops' = Append(loops, NewLoop(id))
            /\ ev' = [Event("watch", id, "Spawned") EXCEPT !.loop = Len(loops) + 1]
    /\ UNCHANGED <<commands, m_infos, actor, usages>>

\* iterate on one helper process shared by all the loops: one hook at a time.
LoopIterateShared(i) ==
    /\ loops[i].pc \in {"start", "wait"}
    /\ \A j \in DOMAIN loops : loops[j].pc # "hook"
    /\ loops' = [loops EXCEPT ![i].pc = "hook"]
    /\ ev' = [HookEvent("poll", loops[i].id, "running", "watch", loops[i].input)
                EXCEPT !.loop = i]
    /\ UNCHANGED <<commands, m_infos, actor, usages, calls>>

\* iterate: the helper runs the watch command, without timeout, on the input
\* captured by watch().  It runs when the loop starts and when the
\* poll-interval timer of the previous step has fired.
LoopIterate(i) ==
    /\ loops[i].pc \in {"start", "wait"}
    /\ loops' = [loops EXCEPT ![i].pc = "hook"]
    /\ ev' = [HookEvent("poll", loops[i].id, "running", "watch", loops[i].input)
                EXCEPT !.loop = i]
    /\ UNCHANGED <<commands, m_infos, actor, usages, calls>>

\* A body that interprets the output before it looks the container up.
BodyStepInterpretFirst(l, present, out) ==
    IF out \in Limitations
    THEN [l EXCEPT !.pc = "resolved", !.result = out, !.helper = FALSE]
    ELSE IF ~present
    THEN [l EXCEPT !.pc = "stuck"]
    ELSE IF l.req
    THEN [l EXCEPT !.pc = "discarded", !.helper = FALSE]
    ELSE [l EXCEPT !.pc = "wait"]

\* What the body makes of the hook's output once the lookup said `present`.
BodyStep(l, present, out) ==
    IF ~present
    THEN [l EXCEPT !.pc = "stuck"]
    ELSE IF out \in Limitations
    THEN [l EXCEPT !.pc = "resolved", !.result = out, !.helper = FALSE]
    ELSE IF l.req
    THEN [l EXCEPT !.pc = "discarded", !.helper = FALSE]
    ELSE [l EXCEPT !.pc = "wait"]

\* body: the hook has returned `out`; the helper looks the container up in
\* m_infos and interprets the output.
LoopBody(i, out) ==
    /\ loops[i].pc = "hook"
    /\ \E present \in LoopContains(loops[i].id) :
         /\ loops' = [loops EXCEPT ![i] = BodyStep(loops[i], present, out)]
         /\ ev' = [Event("body", loops[i].id, loops'[i].pc)
                     EXCEPT !.out = out, !.loop = i]
    /\ UNCHANGED <<commands, m_infos, actor, usages, calls>>

\* The holder of the watch future discards it.
Discard(i) ==
    /\ Dispatched
    /\ loops[i].pc \in {"start", "hook", "wait", "stuck"}
    /\ ~loops[i].req
    /\ loops' = [loops EXCEPT ![i].req = TRUE]
    /\ ev' = [Event("discard", loops[i].id, "requested") EXCEPT !.loop = i]
    /\ UNCHANGED <<commands, m_infos, actor, usages>>

\* The discard reaches the helper while the loop waits for its timer: the
\* timer is discarded and the loop's promise with it.
LoopDiscard(i) ==
    /\ loops[i].pc = "wait"
    /\ loops[i].req
    /\ loops' = [loops EXCEPT ![i].pc = "discarded", ![i].helper = FALSE]
    /\ ev' = [Event("discarded", loops[i].id, "discarded") EXCEPT !.loop = i]
    /\ UNCHANGED <<commands, m_infos, actor, usages, calls>>

\* ------------------------------------------------------------------ usage
UsageResult(now, out) ==
    IF out = "valid" THEN [res |-> "Stats", ts |-> "now"] ELSE emptyStats(now)

\* usage() entered without going through the actor's mailbox.
UsageCallAnytime(id) ==
    /\ Dispatched
    /\ LET now == "now" IN
       IF ~m_usageCommand
       THEN /\ ev' = [Event("usage", id, emptyStats(now).res)
                        EXCEPT !.ts = emptyStats(now).ts]
            /\ UNCHANGED usages
       ELSE IF ~contains(id)
       THEN /\ ev' = Event("usage", id, "NotInitialized")
            /\ UNCHANGED usages
       ELSE /\ usages' = Append(usages, now)
            /\ ev' = HookEvent("usage", id, "running", "usage", m_infos[id])
    /\ UNCHANGED <<commands, m_infos, actor, loops>>

UsageCall(id) ==
    /\ Dispatched
    /\ actor.pc = "idle"
    /\ LET now == "now" IN
       IF ~m_usageCommand
       THEN /\ ev' = [Event("usage", id, emptyStats(now).res)
                        EXCEPT !.ts = emptyStats(now).ts]
            /\ UNCHANGED usages
       ELSE IF ~contains(id)
       THEN /\ ev' = Event("usage", id, "NotInitialized")
            /\ UNCHANGED usages
       ELSE /\ usages' = Append(usages, now)
            /\ ev' = HookEvent("usage", id, "running", "usage", m_infos[id])
    /\ UNCHANGED <<commands, m_infos, actor, loops>>

\* The continuation of asyncRun: it captured `now` and nothing else.
UsageReturn(k, out) ==
    /\ k \in DOMAIN usages
    /\ usages' = Remove(usages, k)
    /\ ev' = [Event("usage_ret", None, UsageResult(usages[k], out).res)
                EXCEPT !.ts = UsageResult(usages[k], out).ts]
    /\ UNCHANGED <<commands, m_infos, actor, loops, calls>>

\* ---------------------------------------------------------------- cleanup
\* cleanup() that, like watch() and usage(), refuses a container without record.
CleanupCallRequiresRecord(id) ==
    /\ Dispatched
    /\ actor.pc = "idle"
    /\ IF ~m_cleanupCommand
       THEN /\ actor' = [pc |-> "cleanup_erase", id |-> id, cfg |-> None, res |-> "Nothing"]
            /\ ev' = Event("cleanup", id, "running")
       ELSE IF ~contains(id)
       THEN /\ ev' = Event("cleanup", id, "NotInitialized")
            /\ UNCHANGED actor
       ELSE /\ actor' = [pc |-> "cleanup_run", id |-> id, cfg |-> None, res |-> None]
            /\ ev' = HookEvent("cleanup", id, "running", "cleanup", m_infos[id])
    /\ UNCHANGED <<commands, m_infos, loops, usages>>

CleanupCall(id) ==
    /\ Dispatched
    /\ actor.pc = "idle"
    /\ IF ~m_cleanupCommand
       THEN /\ actor' = [pc |-> "cleanup_erase", id |-> id, cfg |-> None, res |-> "Nothing"]
            /\ ev' = Event("cleanup", id, "running")
       ELSE /\ actor' = [pc |-> "cleanup_run", id |-> id, cfg |-> None, res |-> None]
            /\ ev' = HookEvent("cleanup", id, "running", "cleanup", m_infos[id])
    /\ UNCHANGED <<commands, m_infos, loops, usages>>

CleanupResult(out) == IF out = "error" THEN "Failure" ELSE "Nothing"

CleanupReturn(out) ==
    /\ actor.pc = "cleanup_run"
    /\ actor' = [actor EXCEPT !.pc = "cleanup_erase", !.res = CleanupResult(out)]
    /\ ev' = Event("cleanup_run", actor.id, "running")
    /\ UNCHANGED <<commands, m_infos, loops, usages, calls>>

\* m_infos.clear() in place of m_infos.erase(containerId).
ErasedAll(id) == [j \in Containers |-> None]

Erased(id) == [m_infos EXCEPT ![id] = None]

\* cleanup() that erases only when its hook succeeded.
CleanupEraseIfOk ==
    /\ actor.pc = "cleanup_erase"
    /\ m_infos' = IF actor.res = "Failure" THEN m_infos ELSE Erased(actor.id)
    /\ actor' = Idle
    /\ ev' = Event("cleanup_ret", actor.id, actor.res)
    /\ UNCHANGED <<commands, loops, usages, calls>>

CleanupErase ==
    /\ actor.pc = "cleanup_erase"
    /\ m_infos' = Erased(actor.id)
    /\ actor' = Idle
    /\ ev' = Event("cleanup_ret", actor.id, actor.res)
    /\ UNCHANGED <<commands, loops, usages, calls>>

\* ------------------------------------------------------------------ clock
\* The clock moves on: every time captured so far is now an earlier one.
\* Only usage() reads the clock, so a step of the clock shows only while a
\* usage hook that captured the present instant is in flight.
Tick ==
    /\ \E k \in DOMAIN usages : usages[k] = "now"
    /\ usages' = [k \in DOMAIN usages |-> "earlier"]
    /\ ev' = Event("tick", None, None)
    /\ UNCHANGED <<commands, m_infos, actor, loops, calls>>

Next ==
    \/ \E id \in Containers, cfg \in Configs : PrepareCall(id, cfg)
    \/ PreparePut
    \/ \E out \in HookOutputs : PrepareReturn(out)
    \/ \E id \in Containers : WatchCall(id)
    \/ \E i \in DOMAIN loops : LoopIterate(i)
    \/ \E i \in DOMAIN loops, out \in WatchOutputs : LoopBody(i, out)
    \/ \E i \in DOMAIN loops : Discard(i)
    \/ \E i \in DOMAIN loops : LoopDiscard(i)
    \/ \E id \in Containers : UsageCall(id)
    \/ \E k \in DOMAIN usages, out \in UsageOutcomes : UsageReturn(k, out)
    \/ \E id \in Containers : CleanupCall(id)
    \/ \E out \in HookOutputs : CleanupReturn(out)
    \/ CleanupErase
    \/ Tick

Spec == Init /\ [][Next]_vars

\* The steps of the actor's own process, and of the helper process of loop i.
\* libprocess runs every process that has something to do; the hooks are
\* taken to return.
ActorStep ==
    \/ PreparePut
    \/ \E out \in HookOutputs : PrepareReturn(out)
    \/ \E out \in HookOutputs : CleanupReturn(out)
    \/ CleanupErase

LoopStep(i) ==
    /\ i \in DOMAIN loops
    /\ \/ LoopIterate(i)
       \/ \E out \in WatchOutputs : LoopBody(i, out)
       \/ LoopDiscard(i)

FairSpec ==
    /\ Spec
    /\ WF_vars(ActorStep)
    /\ \A i \in 1..MaxCalls : WF_vars(LoopStep(i))

\* ================================================================ claims

\* C1: a prepare(id, cfg2) the actor takes up while a record for id exists
\* fails with AlreadyInitialized, runs no hook, and leaves the registry (the
\* config stored for id included), the actor, the loops and the usage hooks
\* in flight as they were.
C1_SecondPrepareFails ==
    [][(ev'.op = "prepare" /\ contains(ev'.id))
         => /\ ev'.res = "AlreadyInitialized"
            /\ ev'.hook = None
            /\ m_infos' = m_infos
            /\ actor' = actor
            /\ loops' = loops
            /\ usages' = usages]_vars

\* A second prepare was rejected; it carried another config than the stored one.
C1_Witness ==
    /\ ev.op = "prepare"
    /\ ev.res = "AlreadyInitialized"
    /\ contains(ev.id)
    /\ ev.cfg # m_infos[ev.id]

\* C2: when cleanup(id) returns, with Nothing or with a Failure, no record
\* for id exists; a record appears only by the put of a prepare for that id;
\* a prepare(id, cfg) taken up while no record exists is not rejected, and
\* its put stores cfg under id.
C2_CleanupAlwaysRemoves ==
    /\ [](ev.op = "cleanup_ret" => ~contains(ev.id))
    /\ [][\A id \in Containers :
            (~contains(id) /\ m_infos'[id] # None)
              => (actor.pc = "prepare_put" /\ actor.id = id)]_vars
    /\ [][(ev'.op = "prepare" /\ ~contains(ev'.id))
            => /\ ev'.res = "running"
               /\ actor' = [pc |-> "prepare_put", id |-> ev'.id,
                            cfg |-> ev'.cfg, res |-> None]]_vars
    /\ [][(actor.pc = "prepare_put" /\ actor' # actor)
            => m_infos' = [m_infos EXCEPT ![actor.id] = actor.cfg]]_vars

\* cleanup returned the failure of its hook and the record is gone.
C2_Witness ==
    /\ ev.op = "cleanup_ret"
    /\ ev.res = "Failure"
    /\ m_cleanupCommand
    /\ ~contains(ev.id)

\* C3: once cleanup has removed the record of a loop that waits between two
\* polls, the loop's next step invokes no watch hook and the loop does not
\* resolve with a Limitation.
C3_NoPollAfterRemoval ==
    [][\A i \in DOMAIN loops :
         (loops[i].pc = "wait" /\ Absent(loops[i].id) /\ actor.pc = "idle")
           => loops'[i].pc \notin {"hook", "resolved"}]_vars

\* C4: a loop whose record was removed and replaced by a later prepare (the
\* registry holds another config than the one the loop was started with) does
\* not take the new record for its own: its body neither goes on to the next
\* wait nor resolves with a Limitation.
C4_NoGhostRecord ==
    [][\A i \in DOMAIN loops :
         (/\ loops[i].pc = "hook"
          /\ ~Writing
          /\ contains(loops[i].id)
          /\ m_infos[loops[i].id] # loops[i].input)
           => loops'[i].pc \notin {"wait", "resolved"}]_vars

Configured(op) ==
    CASE op = "watch" -> m_watchCommand
      [] op = "usage" -> m_usageCommand
      [] op = "cleanup" -> m_cleanupCommand
      [] OTHER -> FALSE

\* C5, as claimed: with no record for id and the command configured, each of
\* watch(id), usage(id) and cleanup(id) yields NotInitialized and invokes no
\* hook.
C5_AllThreeNotInitialized ==
    [][(ev'.op \in {"watch", "usage", "cleanup"} /\ Configured(ev'.op)
          /\ ~contains(ev'.id))
         => (ev'.res = "NotInitialized" /\ ev'.hook = None)]_vars

\* C5, amended: with no record for id and the command configured, watch(id)
\* and usage(id) yield NotInitialized, invoke no hook, spawn no loop and
\* start no usage hook; cleanup(id) does not fail for the absence: it invokes
\* the cleanup hook on an input without a config.
C5_NotInitialized ==
    /\ [][(ev'.op \in {"watch", "usage"} /\ Configured(ev'.op)
             /\ ~contains(ev'.id))
            => /\ ev'.res = "NotInitialized"
               /\ ev'.hook = None
               /\ loops' = loops
               /\ usages' = usages
               /\ actor' = actor]_vars
    /\ [][(ev'.op = "cleanup" /\ Configured("cleanup") /\ ~contains(ev'.id))
            => /\ ev'.res = "running"
               /\ ev'.hook = "cleanup"
               /\ ev'.input = None
               /\ actor'.pc = "cleanup_run"]_vars

\* watch was refused for a container without a record.
C5_Witness ==
    /\ ev.op = "watch"
    /\ ev.res = "NotInitialized"
    /\ m_watchCommand
    /\ ~contains(ev.id)

\* C6: usage(id) answers NotInitialized exactly when the usage command is
\* configured and id has no record; with no command it answers the empty
\* snapshot stamped with the time of the call; a usage hook in flight ends in
\* a snapshot whatever its outcome, and for every outcome but decodable
\* output that snapshot is the empty one stamped with the time the call
\* captured, not the time the hook ended.
C6_UsageNeverFails ==
    /\ [][ev'.op = "usage"
            => /\ ev'.res \in {"NotInitialized", "EmptyStats", "running"}
               /\ (ev'.res = "NotInitialized")
                    <=> (m_usageCommand /\ ~contains(ev'.id))
               /\ ~m_usageCommand => (ev'.res = "EmptyStats" /\ ev'.ts = "now")
               /\ (ev'.res = "running") => usages' = Append(usages, "now")]_vars
    /\ [][ev'.op = "usage_ret" => ev'.res \in {"EmptyStats", "Stats"}]_vars
    /\ [][\A k \in DOMAIN usages, out \in UsageOutcomes \ {"valid"} :
            UsageReturn(k, out)
              => (ev'.res = "EmptyStats" /\ ev'.ts = usages[k])]_vars

\* A usage hook ended in the empty snapshot after the clock had moved on.
C6_Witness ==
    /\ ev.op = "usage_ret"
    /\ ev.res = "EmptyStats"
    /\ ev.ts = "earlier"

\* C7: a poll that returns empty output while the loop's record is present
\* and the watch future is not discarded leaves the loop polling: the body
\* goes to the poll-interval wait, it neither resolves nor abandons the loop.
C7_EmptyOutputKeepsPolling ==
    [][\A i \in DOMAIN loops :
         (LoopBody(i, "empty") /\ Present(loops[i].id) /\ ~loops[i].req)
           => loops'[i].pc = "wait"]_vars

\* C8: with the record present, the poll whose output decodes to a
\* Limitation L resolves the watch future with L; the loop invokes its hook
\* when it starts and after each wait, and waits once after each poll that
\* did not end it (k waits for k + 1 polls); a resolved loop invokes no hook.
C8_ResolvesWithLimitation ==
    /\ [][\A i \in DOMAIN loops, L \in Limitations :
            (LoopBody(i, L) /\ Present(loops[i].id))
              => (loops'[i].pc = "resolved" /\ loops'[i].result = L)]_vars
    /\ [][\A i \in DOMAIN loops :
            /\ (loops'[i].pc = "hook" /\ loops[i].pc # "hook")
                 => loops[i].pc \in {"start", "wait"}
            /\ (loops'[i].pc = "wait" /\ loops[i].pc # "wait")
                 => loops[i].pc = "hook"
            /\ loops[i].pc = "resolved" => loops'[i] = loops[i]]_vars

\* C9: a prepare whose hook fails returns the failure and leaves its record
\* in the registry; a record leaves the registry only by the erase of a
\* cleanup for its id; while it is there watch and usage are not refused and
\* a further prepare is.
C9_FailedPrepareKeepsRecord ==
    /\ [][(ev'.op = "prepare_ret" /\ ev'.res \in {"Failure", "DecodeFailure"})
            => (m_infos' = m_infos /\ m_infos'[ev'.id] # None)]_vars
    /\ [][\A id \in Containers :
            (contains(id) /\ m_infos'[id] # m_infos[id])
              => (Erasing(id) /\ ev'.op = "cleanup_ret" /\ m_infos'[id] = None)]_vars
    /\ [][(ev'.op \in {"watch", "usage"} /\ contains(ev'.id))
            => ev'.res # "NotInitialized"]_vars
    /\ [][(ev'.op = "prepare" /\ contains(ev'.id))
            => ev'.res = "AlreadyInitialized"]_vars

\* prepare returned a decode failure and its record is in the registry.
C9_Witness ==
    /\ ev.op = "prepare_ret"
    /\ ev.res = "DecodeFailure"
    /\ contains(ev.id)

\* C10: a body that runs while its container has no record abandons the
\* loop: whatever the poll returned, a Limitation included, the watch future
\* is not resolved and the helper is left as it is.
C10_CheckBeforeInterpret ==
    [][\A i \in DOMAIN loops :
         (loops[i].pc = "hook" /\ Absent(loops[i].id) /\ loops'[i].pc # "hook")
           => /\ loops'[i].pc = "stuck"
              /\ loops'[i].result = None
              /\ loops'[i].helper = loops[i].helper]_vars

\* A poll returned a Limitation and the body, finding no record, dropped it.
C10_Witness ==
    /\ ev.op = "body"
    /\ ev.out \in Limitations
    /\ ev.res = "stuck"
    /\ Absent(ev.id)

\* C11: a poll that ends in an execution error or in output that does not
\* decode, while the loop's record is present and the watch future is not
\* discarded, leaves the watch future unresolved and the loop on its way to
\* the next poll (the poll-interval wait); a call of watch answers nothing
\* but a pending future, NotInitialized or a spawned loop, and NotInitialized
\* comes with no loop.
C11_WatchFailuresKeepPolling ==
    /\ [][\A i \in DOMAIN loops, out \in {"error", "garbage"} :
            (LoopBody(i, out) /\ Present(loops[i].id) /\ ~loops[i].req)
              => (loops'[i].pc = "wait" /\ loops'[i].result = None)]_vars
    /\ [][(ev'.op = "watch" /\ calls' # calls)
            => /\ ev'.res \in {"Pending", "NotInitialized", "Spawned"}
               /\ (ev'.res = "NotInitialized" => loops' = loops)]_vars

\* C12: the body of a watch loop looks its container up in the registry only
\* while the actor is between two operations, never in the middle of a
\* prepare or a cleanup.
C12_LookupOnActor ==
    [][\A i \in DOMAIN loops :
         (loops[i].pc = "hook" /\ loops'[i].pc # "hook") => actor.pc = "idle"]_vars

\* The actor takes up a call: prepare, watch, usage or cleanup.
ActorCall(id) ==
    \/ \E cfg \in Configs : PrepareCall(id, cfg)
    \/ WatchCall(id)
    \/ UsageCall(id)
    \/ CleanupCall(id)

\* C13, as claimed: while a prepare or a cleanup hook of one container is in
\* flight, a call for another container can start.
C13_OtherContainerProceeds ==
    \A id \in Containers :
      (actor.pc \in {"prepare_run", "cleanup_run"} /\ actor.id # id
         /\ calls < MaxCalls)
        => ENABLED ActorCall(id)

\* C13, amended: while the actor is in a prepare or a cleanup, its hook in
\* flight included, it takes up no call, for whatever container; every call
\* is taken up by an idle actor.  The steps of the watch loops and the usage
\* hooks in flight are not the actor's: they leave the actor as it is.
C13_ActorBlockedDuringHook ==
    /\ [][(calls' # calls /\ ev'.op \in {"prepare", "watch", "usage", "cleanup"})
            => actor.pc = "idle"]_vars
    /\ [][actor.pc \in {"prepare_run", "cleanup_run"}
            => \/ ev'.op \in {"prepare_ret", "cleanup_run"} /\ ev'.id = actor.id
               \/ actor' = actor /\ m_infos' = m_infos
                    /\ ev'.op \in {"poll", "body", "discard", "discarded",
                                   "usage_ret", "tick"}]_vars

\* While the cleanup hook of one container is in flight, the loop of another
\* container has taken a step.
C13_Witness ==
    /\ actor.pc = "cleanup_run"
    /\ ev.op = "body"
    /\ ev.id # actor.id

\* C14: while the watch hook of a loop is in flight, however long, the actor
\* goes on: idle, it can take up any of prepare, watch, usage and cleanup for
\* any container, and an operation it is in can take its next step; and
\* every other loop goes on: one that is to poll can invoke its hook, one
\* whose hook is in flight can have it return and run its body, with whatever
\* output, a Limitation included.
C14_WatchHookStallsNothing ==
    \A i \in DOMAIN loops :
      loops[i].pc = "hook"
        => /\ (actor.pc = "idle" /\ calls < MaxCalls)
                => \A id \in Containers :
                     /\ \A cfg \in Configs : ENABLED PrepareCall(id, cfg)
                     /\ ENABLED WatchCall(id)
                     /\ ENABLED UsageCall(id)
                     /\ ENABLED CleanupCall(id)
           /\ actor.pc = "prepare_put" => ENABLED PreparePut
           /\ actor.pc = "prepare_run" => \A out \in HookOutputs : ENABLED PrepareReturn(out)
           /\ actor.pc = "cleanup_run" => \A out \in HookOutputs : ENABLED CleanupReturn(out)
           /\ actor.pc = "cleanup_erase" => ENABLED CleanupErase
           /\ \A j \in DOMAIN loops \ {i} :
                /\ loops[j].pc \in {"start", "wait"} => ENABLED LoopIterate(j)
                /\ loops[j].pc = "hook"
                     => \A out \in WatchOutputs : ENABLED LoopBody(j, out)

\* The loop of one container resolved while the watch hook of another
\* container's loop was in flight.
C14_Witness ==
    /\ ev.op = "body"
    /\ ev.res = "resolved"
    /\ \E i \in DOMAIN loops : loops[i].pc = "hook" /\ loops[i].id # ev.id

\* C15: while a prepare(id) is in progress on the actor, its hook included,
\* the actor takes up no call (no watch, usage or cleanup of id passes the
\* record test meanwhile); the prepare ends only by its own return; a watch
\* or a usage is accepted only by an idle actor with the record of its id in
\* the registry, and a record enters the registry only by the put of a
\* prepare for its id, which is then in progress until it returns.
C15_PrepareCompletesFirst ==
    /\ [][actor.pc \in {"prepare_put", "prepare_run"}
            => ~(calls' # calls
                 /\ ev'.op \in {"prepare", "watch", "usage", "cleanup"})]_vars
    /\ [][(actor.pc \in {"prepare_put", "prepare_run"} /\ actor' # actor)
            => \/ actor.pc = "prepare_put" /\ actor' = [actor EXCEPT !.pc = "prepare_run"]
                 /\ m_prepareCommand
               \/ actor' = Idle /\ ev'.op = "prepare_ret" /\ ev'.id = actor.id
                 /\ m_infos'[actor.id] # None]_vars
    /\ [][(calls' # calls /\ ev'.op \in {"watch", "usage"}
             /\ ev'.res \in {"Spawned", "running"})
            => (actor.pc = "idle" /\ contains(ev'.id))]_vars
    /\ [][\A id \in Containers :
            (~contains(id) /\ m_infos'[id] # None)
              => (Putting(id) /\ actor'.pc \in {"idle", "prepare_run"}
                  /\ (actor'.pc = "idle" => ev'.op = "prepare_ret"))]_vars

\* A watch was accepted for a container whose prepare ran its hook.
C15_Witness ==
    /\ ev.op = "watch"
    /\ ev.res = "Spawned"
    /\ m_prepareCommand
    /\ contains(ev.id)

\* C16: once the watch future of a loop is discarded, the loop starts no
\* invocation of the watch hook, a hook in flight ends only by returning to
\* the body, and the watch future is not resolved with a Limitation.
C16_CancelStopsLoop ==
    [][\A i \in DOMAIN loops :
         loops[i].req
           => /\ (loops'[i].pc = "hook" => loops[i].pc = "hook")
              /\ (loops[i].pc = "hook" /\ loops'[i].pc # "hook")
                   => (ev'.op = "body" /\ ev'.loop = i)
              /\ (loops'[i].pc = "resolved" => loops[i].pc = "resolved")]_vars

\* C17: with a cleanup command configured, cleanup(id) for an id without
\* record runs the cleanup hook on an input that holds no config; a cleanup
\* hook's outcome decides the result (a Failure for an execution error,
\* Nothing for every output, empty, undecodable or decodable); the result is
\* returned in the step that erases the record, so that wherever cleanup has
\* returned, a Failure included, the record is gone.
C17_CleanupWithoutRecord ==
    /\ [][(calls' # calls /\ ev'.op = "cleanup" /\ m_cleanupCommand
             /\ ~contains(ev'.id))
            => /\ ev'.res = "running"
               /\ ev'.hook = "cleanup"
               /\ ev'.input = None
               /\ actor' = [pc |-> "cleanup_run", id |-> ev'.id,
                            cfg |-> None, res |-> None]]_vars
    /\ [][\A out \in HookOutputs :
            CleanupReturn(out)
              => /\ actor'.res = (IF out = "error" THEN "Failure" ELSE "Nothing")
                 /\ actor'.pc = "cleanup_erase"
                 /\ m_infos' = m_infos]_vars
    /\ [][ev'.op = "cleanup_ret"
            => /\ actor.pc = "cleanup_erase"
               /\ ev'.res = actor.res
               /\ ev'.id = actor.id
               /\ m_infos'[ev'.id] = None]_vars
    /\ [](ev.op = "cleanup_ret" /\ ev.res = "Failure" => ~contains(ev.id))

\* The cleanup hook is running for a container that has no record.
C17_Witness ==
    /\ actor.pc = "cleanup_run"
    /\ ev.op = "cleanup"
    /\ ev.hook = "cleanup"
    /\ ev.input = None
    /\ ~contains(ev.id)

\* C18: with no watch command configured, every watch(id), for an id with or
\* without record, answers a pending future and nothing else, invokes no hook
\* and spawns no loop; no loop and no helper ever exist, so that nothing, a
\* later cleanup(id) included, can resolve, fail or discard that future.
C18_NoWatchCommandNeverResolves ==
    /\ [][(calls' # calls /\ ev'.op = "watch" /\ ~m_watchCommand)
            => /\ ev'.res = "Pending"
               /\ ev'.hook = None
               /\ loops' = loops
               /\ actor' = actor
               /\ m_infos' = m_infos]_vars
    /\ [](~m_watchCommand => (loops = << >> /\ ev.hook # "watch"
                              /\ ev.op \notin {"poll", "body", "discard", "discarded"}))

\* Without watch command, watch answered a pending future for a container
\* that has no record.
C18_Witness ==
    /\ ~m_watchCommand
    /\ ev.op = "watch"
    /\ ev.res = "Pending"
    /\ ~contains(ev.id)

\* C19: every loop that has stopped polling, by a decoded Limitation, by the
\* absence of its record or by a discard, eventually has its watch future
\* out of the pending state (resolved or discarded) and its helper process
\* terminated.
C19_Stopped(i) ==
    IF i \in DOMAIN loops
    THEN loops[i].pc \in {"stuck", "resolved", "discarded"}
    ELSE FALSE

C19_Released(i) ==
    IF i \in DOMAIN loops
    THEN loops[i].pc \in {"resolved", "discarded"} /\ ~loops[i].helper
    ELSE FALSE

C19_StoppedLoopReleasesHelper ==
    \A i \in 1..MaxCalls : [](C19_Stopped(i) => <>C19_Released(i))

\* C20: the registry changes only in the put of a prepare and in the erase
\* of a cleanup, and only at the id of that operation; the calls of watch and
\* usage, the steps of the loops, the returns of the hooks and the clock
\* leave it as it is; the put adds the config of its prepare call under the
\* call's id, which had no entry; the erase removes the entry of its id; an
\* entry that stays in the registry keeps its config.
C20_RegistryFrame ==
    /\ [][m_infos' # m_infos
            => /\ actor.pc \in {"prepare_put", "cleanup_erase"}
               /\ ev'.op \in {"prepare_put", "prepare_ret", "cleanup_ret"}
               /\ \A id \in Containers \ {actor.id} : m_infos'[id] = m_infos[id]]_vars
    /\ [][ev'.op \in {"prepare", "watch", "usage", "cleanup", "cleanup_run",
                      "poll", "body", "discard", "discarded", "usage_ret", "tick"}
            => m_infos' = m_infos]_vars
    /\ [][(calls' # calls /\ ev'.op = "prepare" /\ ev'.res = "running")
            => (actor'.pc = "prepare_put" /\ actor'.id = ev'.id
                /\ actor'.cfg = ev'.cfg /\ ev'.cfg \in Configs)]_vars
    /\ [][(actor.pc = "prepare_put" /\ actor' # actor)
            => /\ m_infos[actor.id] = None
               /\ m_infos' = [m_infos EXCEPT ![actor.id] = actor.cfg]]_vars
    /\ [][(actor.pc = "cleanup_erase" /\ actor' # actor)
            => m_infos' = [m_infos EXCEPT ![actor.id] = None]]_vars
    /\ [][\A id \in Containers :
            (contains(id) /\ m_infos'[id] # None) => m_infos'[id] = m_infos[id]]_vars

\* A cleanup has erased the record of one container and the record of the
\* other container is still in the registry.
C20_Witness ==
    /\ ev.op = "cleanup_ret"
    /\ ~contains(ev.id)
    /\ \E id \in Containers \ {ev.id} : contains(id)

====
